---- MODULE Spec2Model ----
(***************************************************************************)
(* A model of the WiFi Book Transfer command-line client                   *)
(* (src/list_books.py; src/listar_libros.py is the same main() without     *)
(* discovery and with a fixed BASE_URL).                                   *)
(*                                                                         *)
(* Python strings are sequences of one-character strings, so that strip(), *)
(* lower(), isdigit(), int(), endswith() and the string order used by      *)
(* sorted() are computed as Python computes them.  A character outside     *)
(* ASCII is written by its code point: "U+00ED" is i with acute accent,    *)
(* "U+00CD" its capital, "U+00B2" superscript two.                         *)
(***************************************************************************)
EXTENDS Integers, Sequences, FiniteSets, TLC

VARIABLES
    pc,          \* position of main(): the block that runs next
    host,        \* args.host (None when -H is absent)
    upload,      \* args.upload: the paths given to -u, in order (<<>> when absent)
    base_url,    \* the endpoint in use (the IP; scheme and port are fixed)
    queue,       \* discover_servers: submitted probes no worker has taken yet
    running,     \* discover_servers: probes a pool worker is executing
    finished,    \* discover_servers: completed futures as_completed has not yielded
    found,       \* discover_servers: the list `found`
    servers,     \* main: the list discover_servers returned
    responded,   \* the candidates that answered 200 with the fingerprint
    books,       \* main: the value get_book_list returned
    up_i,        \* main: how many paths of args.upload the loop has taken
    target,      \* main: the local `target` of the last resolution (None: none made)
    name,        \* main: the local `name` the last resolution produced
    typed,       \* the line the user typed at the delete prompt
    trace,       \* the requests sent and the messages reported, in order
    ret,         \* the value returned by the function under test (upload_book)
    exit_code    \* what main returned (-1 until it returns)

vars == <<pc, host, upload, base_url, queue, running, finished, found, servers,
          responded, books, up_i, target, name, typed, trace, ret, exit_code>>

----------------------------------------------------------------------------
(* Python values that are not strings *)

None == <<"None">>
\* a JSON number where a string was expected, e.g. {"name": 5}
Num5 == <<"int:5">>

IsStr(v) == v # None /\ v # Num5

----------------------------------------------------------------------------
(* str methods *)

UpperChars == <<"A","B","C","D","E","F","G","H","I","J","K","L","M","N","O","P",
                "Q","R","S","T","U","V","W","X","Y","Z","U+00CD">>
LowerChars == <<"a","b","c","d","e","f","g","h","i","j","k","l","m","n","o","p",
                "q","r","s","t","u","v","w","x","y","z","U+00ED">>

LowerChar(c) ==
    IF \E i \in 1..Len(UpperChars) : UpperChars[i] = c
    THEN LowerChars[CHOOSE i \in 1..Len(UpperChars) : UpperChars[i] = c]
    ELSE c

\* str.lower()
Lower(s) == [i \in 1..Len(s) |-> LowerChar(s[i])]

Whitespace == {" ", "\t"}

RECURSIVE LStrip(_)
LStrip(s) == IF s # <<>> /\ Head(s) \in Whitespace THEN LStrip(Tail(s)) ELSE s

RECURSIVE RStrip(_)
RStrip(s) ==
    IF s # <<>> /\ s[Len(s)] \in Whitespace
    THEN RStrip(SubSeq(s, 1, Len(s) - 1))
    ELSE s

\* str.strip()
Strip(s) == RStrip(LStrip(s))

\* str.endswith(suffix)
EndsWith(s, suffix) ==
    /\ Len(suffix) <= Len(s)
    /\ SubSeq(s, Len(s) - Len(suffix) + 1, Len(s)) = suffix

AsciiDigits == <<"0","1","2","3","4","5","6","7","8","9">>

IsAsciiDigit(c) == \E i \in 1..10 : AsciiDigits[i] = c

\* Characters str.isdigit() accepts and int() rejects: superscript digits
\* (Unicode category No with the Digit property).
SuperscriptDigits == {"U+00B2", "U+00B3"}

\* str.isdigit(): non-empty and every character has the Digit property
IsDigit(s) ==
    /\ s # <<>>
    /\ \A i \in 1..Len(s) : IsAsciiDigit(s[i]) \/ s[i] \in SuperscriptDigits

DigitValue(c) == (CHOOSE i \in 1..10 : AsciiDigits[i] = c) - 1

\* int(s) is defined on decimal digits only; on anything else it raises ValueError
IntRaises(s) == \E i \in 1..Len(s) : ~IsAsciiDigit(s[i])

RECURSIVE ParseInt(_)
ParseInt(s) ==
    IF s = <<>> THEN 0
    ELSE 10 * ParseInt(SubSeq(s, 1, Len(s) - 1)) + DigitValue(s[Len(s)])

\* str(n) for n >= 0
RECURSIVE Dec(_)
Dec(n) ==
    IF n < 10 THEN <<AsciiDigits[n + 1]>>
    ELSE Dec(n \div 10) \o <<AsciiDigits[(n % 10) + 1]>>

\* code points of the characters an address is made of
Ord(c) == IF c = "." THEN 46 ELSE 48 + DigitValue(c)

\* s < t for Python strings: code point order, a proper prefix is smaller
RECURSIVE StrLess(_, _)
StrLess(s, t) ==
    IF t = <<>> THEN FALSE
    ELSE IF s = <<>> THEN TRUE
    ELSE IF Ord(Head(s)) # Ord(Head(t)) THEN Ord(Head(s)) < Ord(Head(t))
    ELSE StrLess(Tail(s), Tail(t))

----------------------------------------------------------------------------
(* Events of a run, in the order they happen *)

\* an HTTP request sent to the server
Req(op, n) == [t |-> "request", op |-> op, name |-> n]
\* a message printed for the user
Rep(op, n) == [t |-> "report", op |-> op, name |-> n]

----------------------------------------------------------------------------
(* Discovery: _get_subnet_ips, _check_host, discover_servers *)

\* ThreadPoolExecutor(max_workers=64)
max_workers == 64

\* The last octets probed.  The source takes range(1, 255); the model takes
\* these few of them, in the same ascending order.
HostSample == <<2, 10>>

Dot == <<".">>

\* ".".join(parts)
RECURSIVE Join(_)
Join(parts) ==
    IF parts = <<>> THEN <<>>
    ELSE IF Len(parts) = 1 THEN parts[1]
    ELSE parts[1] \o Dot \o Join(Tail(parts))

\* s.split(".")
RECURSIVE Split(_)
Split(s) ==
    IF \A i \in 1..Len(s) : s[i] # "."
    THEN <<s>>
    ELSE LET k == CHOOSE i \in 1..Len(s) :
                      s[i] = "." /\ \A j \in 1..(i - 1) : s[j] # "."
         IN  <<SubSeq(s, 1, k - 1)>> \o Split(SubSeq(s, k + 1, Len(s)))

\* What the UDP socket trick gives: OSError, or the local address.
SocketOutcomes ==
    { [oserror |-> TRUE,  local_ip |-> <<>>],
      [oserror |-> FALSE, local_ip |-> <<"1","9","2",".","1","6","8",".","1",".","5">>] }

\* _get_subnet_ips, given what the socket gave
_get_subnet_ips(sock) ==
    IF sock.oserror
    THEN [k \in 1..(2 * Len(HostSample)) |->
            <<"1","9","2",".","1","6","8",".">>
              \o Dec((k - 1) \div Len(HostSample)) \o Dot
              \o Dec(HostSample[((k - 1) % Len(HostSample)) + 1])]
    ELSE LET parts == Split(sock.local_ip)
         IN  IF Len(parts) # 4 THEN <<>>
             ELSE LET base == Join(SubSeq(parts, 1, 3))
                  IN  [i \in 1..Len(HostSample) |-> base \o Dot \o Dec(HostSample[i])]

\* What a probe GET http://ip:8080/ can meet: an exception of requests, or a
\* response with a status and a body that holds the fingerprint or not.
ProbeResponses ==
    { [exc |-> TRUE,  status |-> 0,   fingerprint |-> FALSE],
      [exc |-> FALSE, status |-> 200, fingerprint |-> TRUE],
      [exc |-> FALSE, status |-> 200, fingerprint |-> FALSE],
      [exc |-> FALSE, status |-> 404, fingerprint |-> TRUE] }

\* the server answered as a WiFi Book Transfer server does
Responds(resp) == ~resp.exc /\ resp.status = 200 /\ resp.fingerprint

_check_host(ip, resp) ==
    IF resp.exc THEN None
    ELSE IF resp.status = 200 /\ resp.fingerprint THEN ip
    ELSE None

\* insert x into the sorted list s
RECURSIVE Insert(_, _)
Insert(x, s) ==
    IF s = <<>> THEN <<x>>
    ELSE IF StrLess(x, Head(s)) THEN <<x>> \o s
    ELSE <<Head(s)>> \o Insert(x, Tail(s))

RECURSIVE SortStr(_)
SortStr(s) == IF s = <<>> THEN <<>> ELSE Insert(s[Len(s)], SortStr(SubSeq(s, 1, Len(s) - 1)))

sorted_unsorted(s) == s

\* sorted(found)
sorted(s) == SortStr(s)

----------------------------------------------------------------------------
(* The catalog: what response.json() can give *)

\* a JSON object with a "name" (None: the key is absent)
Obj(n) == [obj |-> TRUE, name |-> n]
\* a JSON value that is not an object, e.g. the number 1
NonObj == [obj |-> FALSE, name |-> None]

\* item.get("name", default); an item that is no dict has no get()
Get(item, default) == IF item.name = None THEN default ELSE item.name

List(items) == [shape |-> "list", items |-> items]
\* a JSON value that is no array and is true in a condition: 5, "ab", {"a": 1}
TruthyNonList == [shape |-> "truthy_nonlist", items |-> <<>>]
\* a JSON value that is no array and is false in a condition: null, 0, "", {}
FalsyNonList == [shape |-> "falsy_nonlist", items |-> <<>>]

\* bool(books)
Truthy(v) == v.shape = "truthy_nonlist" \/ (v.shape = "list" /\ v.items # <<>>)

get_book_list_cached(resp) ==
    [value |-> IF resp.kind = "json" THEN resp.body ELSE List(<<>>), events |-> <<>>]

\* get_book_list: GET /files, then raise_for_status() and json()
get_book_list(resp) ==
    IF resp.kind = "error"
    THEN [value |-> List(<<>>), events |-> <<Req("list", None), Rep("connect_error", None)>>]
    ELSE IF resp.kind = "badjson"
    THEN [value |-> List(<<>>), events |-> <<Req("list", None), Rep("json_error", None)>>]
    ELSE [value |-> resp.body, events |-> <<Req("list", None)>>]

----------------------------------------------------------------------------
(* Upload: upload_book *)

formats ==
    << <<"e","p","u","b">>, <<"t","x","t">>, <<"p","d","f">>, <<"m","o","b","i">>,
       <<"a","z","w">>, <<"a","z","w","3">>, <<"f","b","2">>, <<"d","o","c">>,
       <<"d","o","c","x">>, <<"h","t","m">>, <<"h","t","m","l">>, <<"c","b","z">>,
       <<"c","b","t">>, <<"c","b","r">>, <<"j","v","u">>, <<"d","j","v","u">>,
       <<"d","j","v">>, <<"r","t","f">>, <<"z","i","p">>, <<"r","a","r">> >>

\* os.path.basename(path)
RECURSIVE Basename(_)
Basename(path) ==
    IF \A i \in 1..Len(path) : path[i] # "/" THEN path
    ELSE Basename(Tail(path))

Home == <<"/","h">>

\* os.path.expanduser(path)
ExpandUser(path) ==
    IF path # <<>> /\ Head(path) = "~" /\ (Len(path) = 1 \/ path[2] = "/")
    THEN Home \o Tail(path)
    ELSE path

AllowedFormat_case_sensitive(n) ==
    \E i \in 1..Len(formats) : EndsWith(n, Dot \o formats[i])

\* name.lower().endswith(tuple(f".{ext}" for ext in formats))
AllowedFormat(n) ==
    \E i \in 1..Len(formats) : EndsWith(Lower(n), Dot \o formats[i])

upload_book_check_after_post(file, post) ==
    IF ~file.isfile
    THEN [ok |-> FALSE, events |-> <<Rep("missing_file", file.path)>>]
    ELSE IF ~file.readable
    THEN [ok |-> FALSE, events |-> <<Rep("read_error", file.path)>>]
    ELSE IF post # "ok"
    THEN [ok |-> FALSE, events |-> <<Req("upload", Basename(file.path)),
                                     Rep("upload_error", Basename(file.path))>>]
    ELSE IF ~AllowedFormat(Basename(file.path))
    THEN [ok |-> FALSE, events |-> <<Req("upload", Basename(file.path)),
                                     Rep("unsupported", Basename(file.path))>>]
    ELSE [ok |-> TRUE, events |-> <<Req("upload", Basename(file.path))>>]

\* upload_book.  file.path is the path given; file.isfile and file.readable say
\* what os.path.isfile and open(path, "rb") find there; post is how the POST ends.
upload_book(file, post) ==
    IF ~file.isfile
    THEN [ok |-> FALSE, events |-> <<Rep("missing_file", file.path)>>]
    ELSE IF ~AllowedFormat(Basename(file.path))
    THEN [ok |-> FALSE, events |-> <<Rep("unsupported", Basename(file.path))>>]
    ELSE IF ~file.readable
    THEN [ok |-> FALSE, events |-> <<Rep("read_error", file.path)>>]
    ELSE IF post # "ok"
    THEN [ok |-> FALSE, events |-> <<Req("upload", Basename(file.path)),
                                     Rep("upload_error", Basename(file.path))>>]
    ELSE [ok |-> TRUE, events |-> <<Req("upload", Basename(file.path))>>]

----------------------------------------------------------------------------
(* Delete and download: delete_book, download_book *)

\* delete_book.  quote() of a name that is no string raises TypeError, which the
\* except clause (RequestException) does not catch.
delete_book(n, post) ==
    IF ~IsStr(n)
    THEN [raise |-> TRUE, ok |-> FALSE, events |-> <<>>]
    ELSE IF post # "ok"
    THEN [raise |-> FALSE, ok |-> FALSE,
          events |-> <<Req("delete", n), Rep("delete_error", n)>>]
    ELSE [raise |-> FALSE, ok |-> TRUE, events |-> <<Req("delete", n)>>]

\* download_book.  get is how the GET ends, write how writing the file ends;
\* open(os.path.join(directory, "")) names the directory itself and fails.
download_book(n, get, write) ==
    IF ~IsStr(n)
    THEN [raise |-> TRUE, ok |-> FALSE, events |-> <<>>]
    ELSE IF get # "ok"
    THEN [raise |-> FALSE, ok |-> FALSE,
          events |-> <<Req("download", n), Rep("download_error", n)>>]
    ELSE IF write # "ok" \/ n = <<>>
    THEN [raise |-> FALSE, ok |-> FALSE,
          events |-> <<Req("download", n), Rep("save_error", n)>>]
    ELSE [raise |-> FALSE, ok |-> TRUE, events |-> <<Req("download", n)>>]

----------------------------------------------------------------------------
(* Token resolution and confirmation, as main() does them *)

\* the position of the first item whose name is n, 0 when there is none
FirstMatch(items, n) ==
    IF \E i \in 1..Len(items) : items[i].obj /\ Get(items[i], None) = n
    THEN CHOOSE i \in 1..Len(items) :
            /\ items[i].obj /\ Get(items[i], None) = n
            /\ \A j \in 1..(i - 1) : ~(items[j].obj /\ Get(items[j], None) = n)
    ELSE 0

\* any(book.get("name") == name for book in books) raises AttributeError at an
\* item that is no dict, unless an earlier item matched
AnyRaises(items, n) ==
    \E j \in 1..Len(items) :
        /\ ~items[j].obj
        /\ (FirstMatch(items, n) = 0 \/ j < FirstMatch(items, n))

Resolved(kind, n) == [kind |-> kind, name |-> n]

\* main, lines 237-250 (delete) and 262-274 (download): the same code twice
Resolve(raw, bks) ==
    LET tgt == Strip(raw) IN
    IF IsDigit(tgt)
    THEN IF IntRaises(tgt) THEN Resolved("raise", None)
         ELSE IF 1 <= ParseInt(tgt) /\ ParseInt(tgt) <= Len(bks.items)
         THEN IF bks.items[ParseInt(tgt)].obj
              THEN Resolved("ok", Get(bks.items[ParseInt(tgt)], <<>>))
              ELSE Resolved("raise", None)
         ELSE Resolved("bad_index", None)
    ELSE IF AnyRaises(bks.items, tgt) THEN Resolved("raise", None)
         ELSE IF FirstMatch(bks.items, tgt) # 0 THEN Resolved("ok", tgt)
         ELSE Resolved("not_found", tgt)

Affirmatives ==
    { <<"s">>, <<"s","i">>, <<"s","U+00ED">>, <<"y">>, <<"y","e","s">> }

Affirmative_default_yes(line) ==
    Lower(Strip(line)) \in Affirmatives \cup {<<>>}

\* input(...).strip().lower() in ("s", "si", "sí", "y", "yes")
Affirmative(line) == Lower(Strip(line)) \in Affirmatives

----------------------------------------------------------------------------
(* Bounds and the inputs of a run *)

\* the longest catalog the server returns
MaxBooks == 2
\* the most paths given to -u
MaxUploads == 2

SeqsUpTo(S, n) == UNION { [1..k -> S] : k \in 0..n }

A_PDF == <<"a",".","p","d","f">>
B_EPUB == <<"b",".","e","p","u","b">>

\* -H: absent, or an address (typed with a trailing blank)
HostArgs == { None, <<"1","9","2",".","1","6","8",".","1",".","2"," ">> }

\* the local files -u can name
UploadFiles ==
    { [path |-> <<"~","/","c",".","P","D","F">>, isfile |-> TRUE, readable |-> TRUE],
      [path |-> <<"x",".","e","x","e">>, isfile |-> TRUE, readable |-> TRUE],
      [path |-> <<"m",".","p","d","f">>, isfile |-> FALSE, readable |-> FALSE],
      [path |-> <<"u",".","t","x","t"," ">>, isfile |-> TRUE, readable |-> FALSE] }

\* the items a catalog can hold
BookEntries == { Obj(A_PDF), Obj(B_EPUB), Obj(None), Obj(Num5), NonObj }

\* how GET /files can end
ListResponses ==
    { [kind |-> "error", body |-> List(<<>>)], [kind |-> "badjson", body |-> List(<<>>)] }
    \cup { [kind |-> "json", body |-> List(items)] : items \in SeqsUpTo(BookEntries, MaxBooks) }
    \cup { [kind |-> "json", body |-> TruthyNonList], [kind |-> "json", body |-> FalsyNonList] }

\* the values of -d and of -g: absent, or a token
Tokens ==
    { None, <<>>, <<"1">>, <<"2">>, <<"0">>, <<"7">>, <<" ","1">>, <<"U+00B2">>,
      A_PDF, B_EPUB, <<"q">> }

\* what can be typed at the delete prompt; EndOfFile: standard input is closed
EndOfFile == <<"EOF">>
TypedLines ==
    { <<"y">>, <<" ","S","U+00CD"," ">>, <<>>, <<"y","e","s","!">>, EndOfFile }

Outcomes == {"ok", "error"}

\* `if x:` on an optional string argument
Given(arg) == arg # None /\ arg # <<>>

----------------------------------------------------------------------------
(* main() of list_books.py *)

discoveryVars == <<queue, running, finished, found, servers, responded>>

Init ==
    /\ pc = "start"
    /\ host \in HostArgs
    /\ upload \in SeqsUpTo(UploadFiles, MaxUploads)
    /\ base_url = None
    /\ queue = <<>> /\ running = {} /\ finished = {} /\ found = <<>>
    /\ servers = <<>> /\ responded = {}
    /\ books = List(<<>>)
    /\ up_i = 0
    /\ target = None
    /\ name = None
    /\ typed = None
    /\ trace = <<>>
    /\ ret = FALSE
    /\ exit_code = -1

\* `return code`
Return(code) == pc' = "returned" /\ exit_code' = code
\* an exception nothing catches leaves main
Raise == pc' = "raised" /\ UNCHANGED exit_code

\* lines 199-200: -H given
UseHost ==
    /\ pc = "start" /\ Given(host)
    /\ base_url' = Strip(host)
    /\ pc' = "fetch"
    /\ UNCHANGED <<host, upload, discoveryVars, books, up_i, target, name, typed, trace, ret,
                   exit_code>>

\* lines 201-203 and discover_servers, lines 55-58: the candidates are
\* computed and every probe is submitted to the pool
StartScan ==
    /\ pc = "start" /\ ~Given(host)
    /\ \E sock \in SocketOutcomes : queue' = _get_subnet_ips(sock)
    /\ found' = <<>>
    /\ pc' = "scan"
    /\ UNCHANGED <<host, upload, base_url, running, finished, servers, responded,
                   books, up_i, target, name, typed, trace, ret, exit_code>>

\* a free pool worker takes the oldest submitted probe
WorkerTake ==
    /\ pc = "scan" /\ queue # <<>>
    /\ Cardinality(running) < max_workers
    /\ running' = running \cup {Head(queue)}
    /\ queue' = Tail(queue)
    /\ UNCHANGED <<pc, host, upload, base_url, finished, found, servers, responded,
                   books, up_i, target, name, typed, trace, ret, exit_code>>

\* a running probe ends: _check_host returns and its future completes
ProbeDone ==
    /\ pc = "scan"
    /\ \E ip \in running, resp \in ProbeResponses :
        /\ running' = running \ {ip}
        /\ finished' = finished \cup {[ip |-> ip, result |-> _check_host(ip, resp)]}
        /\ responded' = IF Responds(resp) THEN responded \cup {ip} ELSE responded
    /\ UNCHANGED <<pc, host, upload, base_url, queue, found, servers, books, up_i,
                   target, name, typed, trace, ret, exit_code>>

\* lines 59-62: as_completed yields a completed future, main appends its result
Collect ==
    /\ pc = "scan"
    /\ \E f \in finished :
        /\ finished' = finished \ {f}
        /\ found' = IF f.result # None THEN Append(found, f.result) ELSE found
    /\ UNCHANGED <<pc, host, upload, base_url, queue, running, servers, responded,
                   books, up_i, target, name, typed, trace, ret, exit_code>>

\* line 63: every future has been yielded; discover_servers returns
DiscoverReturn ==
    /\ pc = "scan" /\ queue = <<>> /\ running = {} /\ finished = {}
    /\ servers' = sorted(found)
    /\ pc' = "select"
    /\ UNCHANGED <<host, upload, base_url, queue, running, finished, found, responded,
                   books, up_i, target, name, typed, trace, ret, exit_code>>

\* lines 204-210.  `servers` is not read after line 209, and the record of the
\* scan is dropped with it.
SelectServer ==
    /\ pc = "select"
    /\ IF servers = <<>>
       THEN /\ trace' = Append(trace, Rep("no_server", None))
            /\ Return(1)
            /\ UNCHANGED base_url
       ELSE /\ base_url' = servers[1]
            /\ pc' = "fetch"
            /\ UNCHANGED <<trace, exit_code>>
    /\ servers' = <<>> /\ found' = <<>> /\ responded' = {}
    /\ UNCHANGED <<host, upload, queue, running, finished, books, up_i, target, name,
                   typed, ret>>

\* lines 212-217
Fetch ==
    /\ pc = "fetch"
    /\ \E resp \in ListResponses :
        LET got == get_book_list(resp) IN
        /\ books' = got.value
        /\ IF ~Truthy(got.value) /\ upload = <<>>
           THEN /\ trace' = trace \o got.events \o <<Rep("no_books", None)>>
                /\ Return(1)
           ELSE /\ trace' = trace \o got.events
                /\ pc' = "list"
                /\ UNCHANGED exit_code
    /\ UNCHANGED <<host, upload, base_url, discoveryVars, up_i, target, name, typed, ret>>

\* lines 219-225: len(books) needs a sized value, item.get a dict
ListingRaises(bks) ==
    \/ bks.shape # "list"
    \/ \E i \in 1..Len(bks.items) : ~bks.items[i].obj

PrintList ==
    /\ pc = "list"
    /\ IF Truthy(books) /\ ListingRaises(books)
       THEN Raise
       ELSE pc' = "upload" /\ UNCHANGED exit_code
    /\ UNCHANGED <<host, upload, base_url, discoveryVars, books, up_i, target, name, typed,
                   trace, ret>>

UploadFailed_continue == pc' = "upload" /\ UNCHANGED exit_code

\* line 234: what the loop does when upload_book returned False
UploadFailed == Return(1)

\* lines 227-234, one pass of the loop
UploadNext ==
    /\ pc = "upload" /\ up_i < Len(upload)
    /\ \E post \in Outcomes :
        LET file == upload[up_i + 1]
            done == upload_book([file EXCEPT !.path = ExpandUser(Strip(file.path))], post)
        IN  /\ trace' = trace \o done.events
            /\ up_i' = up_i + 1
            /\ IF done.ok
               THEN pc' = "upload" /\ UNCHANGED exit_code
               ELSE UploadFailed
    /\ UNCHANGED <<host, upload, base_url, discoveryVars, books, target, name, typed, ret>>

\* the loop is over (or -u was not given)
UploadEnd ==
    /\ pc = "upload" /\ up_i = Len(upload)
    /\ pc' = "delete"
    /\ UNCHANGED <<host, upload, base_url, discoveryVars, books, up_i, target, name, typed,
                   trace, ret, exit_code>>

\* lines 236-250, -d being token
ResolveDelete ==
    /\ pc = "delete"
    /\ \E token \in Tokens :
        IF Given(token) /\ Truthy(books)
        THEN /\ target' = Strip(token)
             /\ LET r == Resolve(token, books) IN
                CASE r.kind = "ok" ->
                       /\ name' = r.name /\ pc' = "confirm"
                       /\ UNCHANGED <<trace, exit_code>>
                  [] r.kind = "raise" ->
                       /\ Raise /\ UNCHANGED <<name, trace>>
                  [] OTHER ->
                       /\ trace' = Append(trace, Rep(r.kind, Strip(token)))
                       /\ Return(1) /\ UNCHANGED name
        ELSE /\ pc' = "download"
             /\ UNCHANGED <<target, name, trace, exit_code>>
    /\ UNCHANGED <<host, upload, base_url, discoveryVars, books, up_i, typed, ret>>

DeleteFailed_fallthrough == pc' = "download" /\ UNCHANGED exit_code

\* lines 256-257: what main does when delete_book returned False
DeleteFailed == Return(1)

\* the catalog without its first item named n
RECURSIVE Without(_, _)
Without(items, n) ==
    IF items = <<>> THEN <<>>
    ELSE IF Get(Head(items), <<>>) = n THEN Tail(items)
    ELSE <<Head(items)>> \o Without(Tail(items), n)

ConfirmDelete_refresh ==
    /\ pc = "confirm"
    /\ \E line \in TypedLines, post \in Outcomes :
        /\ typed' = line
        /\ IF line = EndOfFile
           THEN Raise /\ UNCHANGED <<trace, books>>
           ELSE IF Affirmative(line)
           THEN LET done == delete_book(name, post) IN
                /\ trace' = trace \o done.events
                /\ IF done.raise THEN Raise /\ UNCHANGED books
                   ELSE IF done.ok
                   THEN /\ pc' = "download" /\ UNCHANGED exit_code
                        /\ books' = List(Without(books.items, name))
                   ELSE DeleteFailed /\ UNCHANGED books
           ELSE /\ trace' = Append(trace, Rep("cancelled", None))
                /\ pc' = "download"
                /\ UNCHANGED <<exit_code, books>>
    /\ UNCHANGED <<host, upload, base_url, discoveryVars, up_i, target, name, ret>>

\* lines 252-259
ConfirmDelete ==
    /\ pc = "confirm"
    /\ \E line \in TypedLines, post \in Outcomes :
        /\ typed' = line
        /\ IF line = EndOfFile
           THEN Raise /\ UNCHANGED trace
           ELSE IF Affirmative(line)
           THEN LET done == delete_book(name, post) IN
                /\ trace' = trace \o done.events
                /\ IF done.raise THEN Raise
                   ELSE IF done.ok THEN pc' = "download" /\ UNCHANGED exit_code
                   ELSE DeleteFailed
           ELSE /\ trace' = Append(trace, Rep("cancelled", None))
                /\ pc' = "download"
                /\ UNCHANGED exit_code
    /\ UNCHANGED <<host, upload, base_url, discoveryVars, books, up_i, target, name, ret>>

\* lines 261-279 and, without a download, line 287; -g being token and isdir
\* what os.path.isdir finds at the output directory
ResolveDownload ==
    /\ pc = "download"
    /\ \E token \in Tokens, isdir \in BOOLEAN :
        IF Given(token) /\ Truthy(books)
        THEN /\ target' = Strip(token)
             /\ LET r == Resolve(token, books) IN
                CASE r.kind = "ok" /\ isdir ->
                       /\ name' = r.name /\ pc' = "get"
                       /\ UNCHANGED <<trace, exit_code>>
                  [] r.kind = "ok" /\ ~isdir ->
                       /\ name' = r.name
                       /\ trace' = Append(trace, Rep("no_dir", None))
                       /\ Return(1)
                  [] r.kind = "raise" ->
                       /\ Raise /\ UNCHANGED <<name, trace>>
                  [] OTHER ->
                       /\ trace' = Append(trace, Rep(r.kind, Strip(token)))
                       /\ Return(1) /\ UNCHANGED name
        ELSE /\ Return(0)
             /\ UNCHANGED <<target, name, trace>>
    /\ UNCHANGED <<host, upload, base_url, discoveryVars, books, up_i, typed, ret>>

\* lines 281-287
Download ==
    /\ pc = "get"
    /\ \E get \in Outcomes, write \in Outcomes :
        LET done == download_book(name, get, write) IN
        /\ trace' = trace \o done.events
        /\ IF done.raise THEN Raise
           ELSE IF done.ok THEN Return(0)
           ELSE Return(1)
    /\ UNCHANGED <<host, upload, base_url, discoveryVars, books, up_i, target, name, typed, ret>>

Next ==
    \/ UseHost \/ StartScan \/ WorkerTake \/ ProbeDone \/ Collect \/ DiscoverReturn
    \/ SelectServer \/ Fetch \/ PrintList \/ UploadNext \/ UploadEnd
    \/ ResolveDelete \/ ConfirmDelete \/ ResolveDownload \/ Download

Spec == Init /\ [][Next]_vars

----------------------------------------------------------------------------
(* upload_book alone, on many file names *)

\* str.upper() of a lower-case name
Upper(s) ==
    [i \in 1..Len(s) |->
        IF \E k \in 1..Len(LowerChars) : LowerChars[k] = s[i]
        THEN UpperChars[CHOOSE k \in 1..Len(LowerChars) : LowerChars[k] = s[i]]
        ELSE s[i]]

\* names with every listed extension, in lower case, in upper case and with
\* only the first letter of the extension capital; and names with none
UploadNames ==
    { <<"x",".">> \o formats[i] : i \in 1..Len(formats) }
    \cup { Upper(<<"x",".">> \o formats[i]) : i \in 1..Len(formats) }
    \cup { <<"x",".">> \o Upper(<<Head(formats[i])>>) \o Tail(formats[i]) :
             i \in 1..Len(formats) }
    \cup { <<"x",".","e","x","e">>, <<"p","d","f">>, <<"x","p","d","f">>,
           <<"x",".","p","d","f","x">>, <<"x",".","p","d","f",".","b","a","k">>,
           <<".","p","d","f">>, <<"x",".","p","d","f",".">>, <<"x">>,
           <<"d",".","p","d","f","/","x">>, <<"d","/","x",".","M","o","b","i">>,
           <<"x",".","a","z","w","4">>, <<"x",".","d","j","v","u","x">> }

\* a file that can be opened is a file
UploadInputs ==
    { file \in { [path |-> n, isfile |-> f, readable |-> r] :
                   n \in UploadNames, f \in BOOLEAN, r \in BOOLEAN } :
        file.readable => file.isfile }

InitUpload ==
    /\ pc = "upload_book"
    /\ upload \in { <<file>> : file \in UploadInputs }
    /\ host = None /\ base_url = None
    /\ queue = <<>> /\ running = {} /\ finished = {} /\ found = <<>>
    /\ servers = <<>> /\ responded = {}
    /\ books = List(<<>>)
    /\ up_i = 0
    /\ target = None
    /\ name = None
    /\ typed = None
    /\ trace = <<>>
    /\ ret = FALSE
    /\ exit_code = -1

\* one call upload_book(path, base_url)
CallUploadBook ==
    /\ pc = "upload_book"
    /\ \E post \in Outcomes :
        LET done == upload_book(upload[1], post) IN
        /\ trace' = done.events
        /\ ret' = done.ok
    /\ pc' = "upload_book_returned"
    /\ UNCHANGED <<host, upload, base_url, discoveryVars, books, up_i, target, name,
                   typed, exit_code>>

NextUpload == CallUploadBook

SpecUpload == InitUpload /\ [][NextUpload]_vars

----------------------------------------------------------------------------
(* Properties *)

ReqIn(tr, i, op) == tr[i].t = "request" /\ tr[i].op = op
RepIn(tr, i, op) == tr[i].t = "report" /\ tr[i].op = op
ReqAt(i, op) == ReqIn(trace, i, op)
RepAt(i, op) == RepIn(trace, i, op)
Requested(op) == \E i \in 1..Len(trace) : ReqAt(i, op)
Reported(op) == \E i \in 1..Len(trace) : RepAt(i, op)

\* what get_book_list reports
FetchFailures == {"connect_error", "json_error"}
\* what the workflows report before `return 1`
FatalReports ==
    {"no_server", "no_books", "missing_file", "unsupported", "read_error",
     "upload_error", "bad_index", "not_found", "delete_error", "no_dir",
     "download_error", "save_error"}

\* C1 as claimed: main returns 1 whenever a failure occurred in the run and 0
\* otherwise (every message of an error counted as a failure, the catalog
\* fetch's included).
C1_ExitOneOnAnyFailure ==
    pc = "returned" =>
        (exit_code = 1 <=> \E k \in FatalReports \cup FetchFailures : Reported(k))

\* C1, amended: main returns 1 exactly when a workflow reported a failure (no
\* server, no books, a failed upload, an unresolvable token, a failed delete or
\* download, a missing output directory) and 0 otherwise; a failed catalog
\* fetch alone does not make the exit code 1.  A run that has not returned
\* has reported none of these.
C1_ExitCode ==
    /\ pc = "returned" =>
        /\ exit_code \in {0, 1}
        /\ exit_code = 1 <=> \E k \in FatalReports : Reported(k)
    /\ pc # "returned" =>
        /\ exit_code = -1
        /\ \A k \in FatalReports : ~Reported(k)

\* a run whose catalog fetch failed, whose upload was sent, and that returned 0
C1_Witness ==
    /\ pc = "returned" /\ exit_code = 0
    /\ Reported("connect_error") /\ Requested("upload")

\* C2: a run of main never ends by an exception nothing catches.
C2_NoUncaughtException == pc # "raised"

AllAsciiDigits(s) == s # <<>> /\ \A i \in 1..Len(s) : IsAsciiDigit(s[i])

\* the step resolves a token (it is not the step that skips an absent -d or -g)
ResolutionStep ==
    \/ pc = "delete" /\ pc' # "download"
    \/ pc = "download" /\ ~(pc' = "returned" /\ exit_code' = 0)

\* the step ends the run with this message about the token and exit code 1
TokenError(kind) ==
    /\ pc' = "returned" /\ exit_code' = 1
    /\ trace' = Append(trace, Rep(kind, target'))

\* the step resolved the token to n: n is the name in use and the run goes on
\* (or stops at the missing output directory)
ResolvedTo(n) ==
    /\ name' = n
    /\ \/ pc' \in {"confirm", "get"} /\ trace' = trace
       \/ pc' = "returned" /\ trace' = Append(trace, Rep("no_dir", None))

\* C3: a token (trimmed) made only of decimal digits is a 1-based index, which
\* resolves to the name at that position when it is in [1, N] and is a
\* reported range error with exit code 1 otherwise; every other token is a
\* literal name, which resolves when some entry has that name and is a
\* reported 'not found' error with exit code 1 otherwise; never a crash.
C3_TokenResolution ==
    [][ResolutionStep =>
        IF AllAsciiDigits(target')
        THEN IF 1 <= ParseInt(target') /\ ParseInt(target') <= Len(books.items)
             THEN ResolvedTo(Get(books.items[ParseInt(target')], <<>>))
             ELSE TokenError("bad_index")
        ELSE IF \E i \in 1..Len(books.items) : books.items[i].name = target'
             THEN ResolvedTo(target')
             ELSE TokenError("not_found")]_vars

\* an input line was read at the prompt
LineTyped == typed # None /\ typed # EndOfFile

\* C4 as claimed: a delete request is sent only when the line typed is, but
\* for case, one of y, yes, s, si, sí; any other line sends none.
C4_ExactAffirmative ==
    /\ Requested("delete") => LineTyped /\ Lower(typed) \in Affirmatives
    /\ (LineTyped /\ Lower(typed) \notin Affirmatives) => ~Requested("delete")

\* C4, amended: a delete request is sent only when the line typed, with the
\* blanks around it removed and but for case, is one of y, yes, s, si, sí; any
\* other line cancels: no delete request is sent, "Cancelled." is printed and
\* the run goes on, so that an exit code 1 can only come from the download.
C4_ConfirmationGate ==
    /\ Requested("delete") => LineTyped /\ Lower(Strip(typed)) \in Affirmatives
    /\ (LineTyped /\ Lower(Strip(typed)) \notin Affirmatives) =>
        /\ ~Requested("delete")
        /\ \E i \in 1..Len(trace) :
            /\ RepAt(i, "cancelled")
            /\ pc \in {"download", "get", "returned", "raised"}
            /\ (pc = "returned" /\ exit_code = 1) =>
                 /\ Len(trace) > i
                 /\ trace[Len(trace)].op \in
                      {"bad_index", "not_found", "no_dir", "download_error", "save_error"}

\* the line " SÍ " was typed and the delete request was sent
C4_Witness == typed = <<" ","S","U+00CD"," ">> /\ Requested("delete")

\* the name has a last dot, and what follows it is, but for case, a format
HasListedExtension(n) ==
    \E k \in 1..Len(n) :
        /\ n[k] = "."
        /\ \A j \in (k + 1)..Len(n) : n[j] # "."
        /\ \E i \in 1..Len(formats) : Lower(SubSeq(n, k + 1, Len(n))) = formats[i]

\* C5 as claimed: for an existing file whose name has a listed extension an
\* upload POST is attempted; a file with any other extension is rejected with
\* False and no request at all.
C5_PostForEveryListedExtension ==
    pc = "upload_book_returned" =>
        LET file == upload[1] IN
        /\ (file.isfile /\ HasListedExtension(Basename(file.path))) => Requested("upload")
        /\ (file.isfile /\ ~HasListedExtension(Basename(file.path))) =>
              ~ret /\ \A i \in 1..Len(trace) : trace[i].t # "request"

\* C5, amended: for an existing file whose name has a listed extension, the
\* upload POST (of that name) is attempted when the file can be opened, and a
\* file that cannot be opened gives False with no request; a file with any
\* other extension is rejected with False and no request at all.
C5_ExtensionFilter ==
    pc = "upload_book_returned" =>
        LET file == upload[1] IN
        /\ (file.isfile /\ HasListedExtension(Basename(file.path)) /\ file.readable) =>
              /\ trace[1] = Req("upload", Basename(file.path))
              /\ ret <=> Len(trace) = 1
        /\ (file.isfile /\ HasListedExtension(Basename(file.path)) /\ ~file.readable) =>
              ~ret /\ trace = <<Rep("read_error", file.path)>>
        /\ (file.isfile /\ ~HasListedExtension(Basename(file.path))) =>
              ~ret /\ trace = <<Rep("unsupported", Basename(file.path))>>

\* X.EPUB was accepted and its POST sent
C5_Witness ==
    /\ pc = "upload_book_returned"
    /\ upload[1].path = <<"X",".","E","P","U","B">>
    /\ ret /\ Requested("upload")

\* C6: whatever the order in which the probes end and are collected,
\* discover_servers returns exactly the candidates that answered 200 with the
\* fingerprint, each once, in string order, and main takes the first of them
\* as the endpoint.
C6_DiscoveryResult ==
    /\ [](pc = "select" =>
            /\ {servers[i] : i \in 1..Len(servers)} = responded
            /\ \A i, j \in 1..Len(servers) : i < j => StrLess(servers[i], servers[j]))
    /\ [][(pc = "select" /\ servers # <<>>) =>
            (base_url' = servers[1] /\ pc' = "fetch")]_vars

\* three servers answered, and not in the order of the result
C6_Witness == pc = "select" /\ Len(servers) = 3 /\ found # servers

\* every upload and delete request comes after the catalog fetch
MutationsAfterFetch ==
    \A i \in 1..Len(trace) :
        (ReqAt(i, "upload") \/ ReqAt(i, "delete")) =>
            \E j \in 1..(i - 1) : ReqAt(j, "list")

Fetches == {i \in 1..Len(trace) : ReqAt(i, "list")}

\* C7 as claimed: every upload and delete request comes after the catalog
\* fetch, and every run fetches the catalog exactly once, first of all.
C7_FetchedOncePerRun ==
    /\ MutationsAfterFetch
    /\ pc \in {"returned", "raised"} => Fetches = {1}

\* C7, amended: every upload and delete request comes after the catalog fetch;
\* a run that has an endpoint (-H, or a server found) fetches the catalog
\* exactly once, before anything else it sends or reports, and a run whose
\* discovery finds no server never fetches it.
C7_FetchFirst ==
    /\ MutationsAfterFetch
    /\ pc \in {"start", "scan", "select", "fetch"} => trace = <<>>
    /\ pc \notin {"start", "scan", "select", "fetch"} =>
          IF base_url = None
          THEN trace = <<Rep("no_server", None)>> /\ pc = "returned"
          ELSE Fetches = {1}

\* the catalog was fetched, then an upload sent, then a delete sent
C7_Witness ==
    \E i, j, k \in 1..Len(trace) :
        i < j /\ j < k /\ ReqAt(i, "list") /\ ReqAt(j, "upload") /\ ReqAt(k, "delete")

\* the event is the one an upload attempt starts with
IsUploadAttempt(e) ==
    \/ e.t = "request" /\ e.op = "upload"
    \/ e.t = "report" /\ e.op \in {"missing_file", "unsupported", "read_error"}

UploadAttempts == SelectSeq(trace, IsUploadAttempt)

UploadFailures == {"missing_file", "unsupported", "read_error", "upload_error"}

\* C8: the paths of -u are attempted in the order given, and the first failed
\* upload ends the run with exit code 1: nothing is attempted, sent or reported
\* after it.
C8_UploadFailFast ==
    /\ Len(UploadAttempts) = up_i /\ up_i <= Len(upload)
    /\ \A k \in 1..Len(UploadAttempts) :
          Basename(UploadAttempts[k].name) = Basename(ExpandUser(Strip(upload[k].path)))
    /\ \A i \in 1..Len(trace) :
          (trace[i].t = "report" /\ trace[i].op \in UploadFailures) =>
              i = Len(trace) /\ pc = "returned" /\ exit_code = 1

\* two paths were given, the first failed, and the run ended there
C8_Witness ==
    /\ Len(upload) = 2 /\ up_i = 1 /\ pc = "returned" /\ exit_code = 1
    /\ upload[2].isfile /\ upload[2].readable

UserInputErrors == {"bad_index", "not_found", "unsupported"}

\* C9 as claimed: when an out-of-range index, an unknown name or an
\* unsupported extension is reported, no upload, delete or download request
\* has been sent before in the run.
C9_NoRequestBeforeReport ==
    \A i \in 1..Len(trace) :
        (trace[i].t = "report" /\ trace[i].op \in UserInputErrors) =>
            \A j \in 1..(i - 1) :
                ~(ReqAt(j, "upload") \/ ReqAt(j, "delete") \/ ReqAt(j, "download"))

\* the step adds a report of this kind
Reports(kind) ==
    \E i \in (Len(trace) + 1)..Len(trace') : RepIn(trace', i, kind)

NoneSent(tr, op) == \A i \in 1..Len(tr) : ~ReqIn(tr, i, op)

\* C9, amended: a user-input error is reported before any request of the
\* operation it belongs to: an unsupported extension before any request for
\* that file, a bad -d token with no delete and no download request sent in
\* the run, a bad -g token with no download request sent in the run; requests
\* of the operations that come earlier on (uploads, the delete) may have been
\* sent already.
C9_ErrorBeforeOwnRequest ==
    [][/\ (pc = "upload" /\ Reports("unsupported")) =>
            trace' = Append(trace,
                Rep("unsupported", Basename(ExpandUser(Strip(upload[up_i + 1].path)))))
       /\ (pc = "delete" /\ (Reports("bad_index") \/ Reports("not_found"))) =>
            /\ Len(trace') = Len(trace) + 1
            /\ NoneSent(trace', "delete") /\ NoneSent(trace', "download")
       /\ (pc = "download" /\ (Reports("bad_index") \/ Reports("not_found"))) =>
            /\ Len(trace') = Len(trace) + 1
            /\ NoneSent(trace', "download")]_vars

\* an upload was sent, and later an unsupported extension reported
C9_Witness ==
    \E i, j \in 1..Len(trace) :
        i < j /\ ReqAt(i, "upload") /\ RepAt(j, "unsupported")

\* the delete request was sent and succeeded
DeleteSucceeded == Requested("delete") /\ ~Reported("delete_error")
\* the name it deleted
Deleted == trace[CHOOSE i \in 1..Len(trace) : ReqAt(i, "delete")].name

\* after a successful delete of X, the -g token names X, or is the index of
\* X or of a later entry
CoversDeleted(tok) ==
    \/ ~AllAsciiDigits(tok) /\ tok = Deleted
    \/ /\ AllAsciiDigits(tok) /\ ParseInt(tok) <= Len(books.items)
       /\ \E p \in 1..ParseInt(tok) : Get(books.items[p], <<>>) = Deleted

\* the name the token stood for in the catalog as fetched
Stood(tok) ==
    IF AllAsciiDigits(tok) THEN Get(books.items[ParseInt(tok)], <<>>) ELSE tok

CatalogKept ==
    /\ [][pc # "fetch" => books' = books]_vars
    /\ [](DeleteSucceeded =>
            \E p \in 1..Len(books.items) : Get(books.items[p], <<>>) = Deleted)

\* C10 as claimed: the workflows leave the catalog unchanged; after a
\* successful delete of X it still holds X, and a -g token that names X, or is
\* the index of X or of a later entry, resolves as before the delete and the
\* download request for the resolved name is sent.
C10_DownloadAfterDelete ==
    /\ CatalogKept
    /\ [][(pc = "download" /\ DeleteSucceeded /\ ResolutionStep /\ CoversDeleted(target')) =>
            (name' = Stood(target') /\ pc' = "get")]_vars
    /\ [][(pc = "get" /\ DeleteSucceeded) =>
            \E i \in (Len(trace) + 1)..Len(trace') :
                trace'[i] = Req("download", name)]_vars

\* C10, amended: as claimed up to the resolution; then the download request
\* for the resolved name is sent when the output directory exists (without it
\* the run reports the missing directory and returns 1), except that a
\* resolved name that is not a string makes download_book raise before any
\* request.
C10_CatalogNotRefreshed ==
    /\ CatalogKept
    /\ [][(pc = "download" /\ DeleteSucceeded /\ ResolutionStep /\ CoversDeleted(target')) =>
            /\ name' = Stood(target')
            /\ \/ pc' = "get" /\ trace' = trace
               \/ /\ pc' = "returned" /\ exit_code' = 1
                  /\ trace' = Append(trace, Rep("no_dir", None))]_vars
    /\ [][pc = "get" =>
            IF IsStr(name)
            THEN Len(trace') > Len(trace) /\ trace'[Len(trace) + 1] = Req("download", name)
            ELSE pc' = "raised" /\ trace' = trace]_vars

\* a.pdf was deleted, and then the download request for a.pdf was sent
C10_Witness ==
    /\ DeleteSucceeded
    /\ \E i, j \in 1..Len(trace) :
          i < j /\ trace[i] = Req("delete", A_PDF) /\ trace[j] = Req("download", A_PDF)

====
